---------------------------- MODULE Spec2Model ----------------------------
(***************************************************************************)
(* A model of tisk's table layer (src/table.rs): the line breaker          *)
(* formatting::format_to_column and TableFormatter::{new, set_columns,     *)
(* print_row}; of the tokenizer CharTokenIter (src/table/tokenizer.rs);    *)
(* and of TaskList (src/tasks/list.rs).                                    *)
(*                                                                         *)
(* A text is a sequence of one-character strings.  The code only looks at  *)
(* whether a character is whitespace, so a text is drawn from a whitespace *)
(* mask: position i holds " " or the i-th letter of Alphabet.  All word    *)
(* characters of a text are therefore distinct, which makes a dropped, a   *)
(* duplicated or a reordered character visible in the output.  Only        *)
(* one-byte characters are modelled, so character and byte offsets agree.  *)
(***************************************************************************)
EXTENDS Integers, Sequences, FiniteSets, TLC

\* ------------------------------------------------------------------ bounds
MaxLen == 9          \* longest text given to format_to_column
MaxWidth == 6        \* widest column given to format_to_column directly
MaxSplit == 7        \* largest split_limit
MaxTableWidth == 6   \* widest table
MaxColWidth == 2     \* largest explicit column width
MaxCols == 2         \* most columns in one set_columns call
MaxTotalCols == 3    \* most columns a formatter accumulates
MaxRowLen == 2       \* most cells in a row

Alphabet ==
  <<"a", "b", "c", "d", "e", "f", "g", "h", "i", "j", "k", "l", "m", "n", "o", "p">>

VARIABLES
  text,          \* format_to_column: the argument `text`
  width,         \* format_to_column: the argument `width`
  split_limit,   \* format_to_column: the argument `split_limit`
  chars,         \* number of characters the iterator `chars` has yielded
  breaks,        \* Vec<(usize, usize, bool)>: start, length, midword
  line_start,    \* start of the line being filled
  line_len,      \* length of the line being filled
  lines,         \* the returned Vec<(&str, Hyphenate)>
  pc,            \* "loop" (173-226), "done" (returned), "failed" (panicked or stuck)
  tf_width,      \* TableFormatter.width
  cols,          \* TableFormatter.cols
  col_widths,    \* TableFormatter.col_widths
  tf_op,         \* the last TableFormatter call: "new", "set_columns", "print_row"
  tf_arg,        \* its argument
  tf_status,     \* its outcome: "ok" (returned) or the panic that ended it
  calls,         \* the (text, width, split_limit) the last print_row gave format_to_column
  row_out,       \* the String returned by the last print_row, as its lines
  tk_input,      \* CharTokenIter.input, as its characters
  tk_cat,        \* CharTokenIter.cat, the classification function
  byte_offset,   \* CharTokenIter.byte_offset
  char_offset,   \* CharTokenIter.char_offset
  position,      \* CharTokenIter.position
  tk_out,        \* what the calls of next() returned so far, in order
  tasks,         \* TaskList.tasks
  tl_op,         \* the last TaskList operation called
  tl_arg,        \* its arguments
  tl_ret,        \* what it returned
  marker,        \* the file .checkout of the task directory: None, or Some(contents)
  ck_op,         \* the last of commit_checkout, read_checkout, commit_checkin called
  ck_arg,        \* its argument
  ck_ret,        \* what it returned
  stored,        \* the files <id>.yaml of the task directory: id -> contents
  cli_cmd,       \* the subcommand of the last run
  cli_effects,   \* what execute_command returned in the last run
  cli_applied,   \* the effects the last run applied, in order
  cli_ret        \* how the last run ended: "ok", "err" or "panic"

fmtVars == <<text, width, split_limit, chars, breaks, line_start, line_len, lines, pc>>
tblVars == <<tf_width, cols, col_widths, tf_op, tf_arg, tf_status, calls, row_out>>
tokVars == <<tk_input, tk_cat, byte_offset, char_offset, position, tk_out>>
tlVars == <<tasks, tl_op, tl_arg, tl_ret>>
ckVars == <<marker, ck_op, ck_arg, ck_ret>>
cliVars == <<stored, cli_cmd, cli_effects, cli_applied, cli_ret>>
diskVars == <<ckVars, cliVars>>
restVars == <<tokVars, tlVars, diskVars>>
vars == <<text, width, split_limit, chars, breaks, line_start, line_len, lines, pc,
          tf_width, cols, col_widths, tf_op, tf_arg, tf_status, calls, row_out,
          tk_input, tk_cat, byte_offset, char_offset, position, tk_out,
          tasks, tl_op, tl_arg, tl_ret,
          marker, ck_op, ck_arg, ck_ret,
          stored, cli_cmd, cli_effects, cli_applied, cli_ret>>

\* ------------------------------------------------------------ texts, chars
is_whitespace(c) == c = " "

TextOfMask(m) == [i \in 1..Len(m) |-> IF m[i] THEN " " ELSE Alphabet[i]]

Texts == UNION { { TextOfMask(m) : m \in [1..n -> BOOLEAN] } : n \in 0..MaxLen }

\* text.get(start..end): the slice, or None (modelled as the failure of the
\* unwrap that follows) when the range is not inside the text.
SliceOk(t, start, end) == start <= end /\ end <= Len(t)
Slice(t, start, end) == SubSeq(t, start + 1, end)

\* a variant that reserves the hyphen cell in every column
hyphen_space_any(w) == IF w > 0 THEN 1 ELSE 0

\* ------------------------------------------------------- format_to_column
\* line 171
hyphen_space(w) == IF w > 4 THEN 1 ELSE 0

\* variants: a word as long as the column counts as too long; the comparison
\* with split_limit is inverted; the column width is not consulted
is_splittable_ge(word_len, w, sl) == word_len >= w \/ word_len > sl
is_splittable_inverted(word_len, w, sl) == word_len > w \/ word_len < sl
is_splittable_limit_only(word_len, w, sl) == word_len > sl
is_splittable_wide_limit(word_len, w, sl) == sl >= w \/ word_len > sl
is_splittable_never_short(word_len, w, sl) == word_len > w \/ word_len >= sl

\* line 196
is_splittable(word_len, w, sl) == word_len > w \/ word_len > sl

\* lines 184-191: the length of the word whose first character is t[first]
RECURSIVE ScanWord(_, _)
ScanWord(t, first) ==
  IF first + 1 <= Len(t) /\ ~is_whitespace(t[first + 1])
  THEN 1 + ScanWord(t, first + 1)
  ELSE 1

\* The locals of format_to_column between two iterations of its outer loop.
\* fail is "none" unless the iteration cannot complete: "underflow" for an
\* unsigned subtraction below zero, "diverge" for a chunking loop that makes
\* no progress.
InitLocals == [chars |-> 0, breaks |-> <<>>, line_start |-> 0, line_len |-> 0,
               fail |-> "none"]

\* lines 174-181
Whitespace_lt(L, w) ==
  IF L.line_len + 1 < w
  THEN [L EXCEPT !.chars = @ + 1, !.line_len = @ + 1]
  ELSE [L EXCEPT !.chars = @ + 1,
                 !.breaks = Append(@, <<L.line_start, L.line_len, FALSE>>),
                 !.line_start = @ + L.line_len,
                 !.line_len = 1]

Whitespace(L, w) ==
  IF L.line_len + 1 <= w
  THEN [L EXCEPT !.chars = @ + 1, !.line_len = @ + 1]
  ELSE [L EXCEPT !.chars = @ + 1,
                 !.breaks = Append(@, <<L.line_start, L.line_len, FALSE>>),
                 !.line_start = @ + L.line_len,
                 !.line_len = 1]

\* line 209: the break pushed for a full chunk of a split word
ChunkBreak(ls, w, adjusted_width) == <<ls, w, TRUE>>

\* lines 204-214: c is [breaks, line_start, line_len, word_len, fail]
RECURSIVE Chunk(_, _, _)
Chunk(c, w, adjusted_width) ==
  IF c.word_len = 0 THEN c
  ELSE IF c.word_len <= adjusted_width
       THEN [c EXCEPT !.line_len = c.word_len, !.word_len = 0]
  ELSE IF adjusted_width = 0
       THEN [c EXCEPT !.fail = "diverge"]
  ELSE Chunk([c EXCEPT !.breaks = Append(@, ChunkBreak(c.line_start, w, adjusted_width)),
                       !.line_start = @ + adjusted_width,
                       !.word_len = @ - adjusted_width,
                       !.line_len = 0],
             w, adjusted_width)

\* line 200: the length of the line flushed when a word is split
FirstBreakLen(w, adjusted_width, ll) == adjusted_width

\* a variant that also flags a line flushed at the start of the word
MidWord_ge(split, word_start) == split >= word_start

\* line 200: whether the flushed line ends inside the word
MidWord(split, word_start) == split > word_start

\* lines 198-214
SplitWord(L, w, word_start, word_len) ==
  LET adjusted_width == w - hyphen_space(w)
      underflow == w # L.line_len /\ adjusted_width < L.line_len
      split == word_start + (IF w = L.line_len THEN 0 ELSE adjusted_width - L.line_len)
      first == <<L.line_start, FirstBreakLen(w, adjusted_width, L.line_len),
                 MidWord(split, word_start)>>
      rest == word_len - (split - word_start)
      c == Chunk([breaks |-> Append(L.breaks, first), line_start |-> split,
                  line_len |-> 0, word_len |-> rest, fail |-> "none"],
                 w, adjusted_width)
  IN IF underflow \/ rest < 0
     THEN [L EXCEPT !.chars = @ + word_len, !.fail = "underflow"]
     ELSE [L EXCEPT !.chars = @ + word_len,
                    !.breaks = c.breaks,
                    !.line_start = c.line_start,
                    !.line_len = c.line_len,
                    !.fail = c.fail]

\* lines 182-221
Word(L, t, w, sl) ==
  LET word_start == L.line_start + L.line_len
      word_len == ScanWord(t, L.chars + 1)
  IN IF word_len + L.line_len <= w
     THEN [L EXCEPT !.chars = @ + word_len, !.line_len = @ + word_len]
     ELSE IF is_splittable(word_len, w, sl)
          THEN SplitWord(L, w, word_start, word_len)
          ELSE [L EXCEPT !.chars = @ + word_len,
                         !.breaks = Append(@, <<L.line_start, L.line_len, FALSE>>),
                         !.line_start = word_start,
                         !.line_len = word_len]

\* lines 223-225
EndFlush_midword(L, t) ==
  IF L.fail = "none" /\ L.chars = Len(t) /\ L.line_len > 0
  THEN [L EXCEPT !.breaks = Append(@, <<L.line_start, L.line_len, TRUE>>)]
  ELSE L

EndFlush(L, t) ==
  IF L.fail = "none" /\ L.chars = Len(t) /\ L.line_len > 0
  THEN [L EXCEPT !.breaks = Append(@, <<L.line_start, L.line_len, FALSE>>)]
  ELSE L

\* lines 173-226: one iteration of the outer loop
Iterate(L, t, w, sl) ==
  EndFlush(IF is_whitespace(t[L.chars + 1]) THEN Whitespace(L, w) ELSE Word(L, t, w, sl), t)

\* line 233
Hyphenate_any_width(w, midword) == midword

Hyphenate(w, midword) == hyphen_space(w) > 0 /\ midword

\* lines 228-236
BreaksOk(t, bs) == \A i \in 1..Len(bs) : SliceOk(t, bs[i][1], bs[i][1] + bs[i][2])

BuildLines(t, w, bs) ==
  [i \in 1..Len(bs) |->
     <<Slice(t, bs[i][1], bs[i][1] + bs[i][2]), Hyphenate(w, bs[i][3])>>]

RECURSIVE RunLoop(_, _, _, _)
RunLoop(L, t, w, sl) ==
  IF L.fail # "none" \/ L.chars >= Len(t) THEN L
  ELSE RunLoop(Iterate(L, t, w, sl), t, w, sl)

\* lines 166-237: the whole function; fail # "none" when it does not return
format_to_column(t, w, sl) ==
  LET L == RunLoop(InitLocals, t, w, sl)
  IN IF L.fail # "none" THEN [lines |-> <<>>, fail |-> L.fail]
     ELSE IF ~BreaksOk(t, L.breaks) THEN [lines |-> <<>>, fail |-> "slice"]
     ELSE [lines |-> BuildLines(t, w, L.breaks), fail |-> "none"]

\* ------------------------------------------- format_to_column, step by step
Locals == [chars |-> chars, breaks |-> breaks, line_start |-> line_start,
           line_len |-> line_len, fail |-> "none"]

Assign(L) ==
  /\ chars' = L.chars
  /\ breaks' = L.breaks
  /\ line_start' = L.line_start
  /\ line_len' = L.line_len
  /\ pc' = IF L.fail = "none" THEN "loop" ELSE "failed"
  /\ UNCHANGED <<text, width, split_limit, lines>>
  /\ UNCHANGED <<tblVars, restVars>>

InLoop == pc = "loop" /\ chars < Len(text)

CurWordLen == ScanWord(text, chars + 1)

\* lines 174-176, 223-225
WhitespaceFits ==
  /\ InLoop /\ is_whitespace(text[chars + 1])
  /\ line_len + 1 <= width
  /\ Assign(EndFlush(Whitespace(Locals, width), text))

\* lines 174, 177-181, 223-225
WhitespaceBreak ==
  /\ InLoop /\ is_whitespace(text[chars + 1])
  /\ ~(line_len + 1 <= width)
  /\ Assign(EndFlush(Whitespace(Locals, width), text))

\* lines 182-194, 223-225
WordFits ==
  /\ InLoop /\ ~is_whitespace(text[chars + 1])
  /\ CurWordLen + line_len <= width
  /\ Assign(EndFlush(Word(Locals, text, width, split_limit), text))

\* lines 182-191, 195-214, 223-225
WordSplit ==
  /\ InLoop /\ ~is_whitespace(text[chars + 1])
  /\ ~(CurWordLen + line_len <= width)
  /\ is_splittable(CurWordLen, width, split_limit)
  /\ Assign(EndFlush(Word(Locals, text, width, split_limit), text))

\* lines 182-191, 195-196, 215-219, 223-225
WordMove ==
  /\ InLoop /\ ~is_whitespace(text[chars + 1])
  /\ ~(CurWordLen + line_len <= width)
  /\ ~is_splittable(CurWordLen, width, split_limit)
  /\ Assign(EndFlush(Word(Locals, text, width, split_limit), text))

\* lines 228-236
Return ==
  /\ pc = "loop" /\ chars >= Len(text)
  /\ IF BreaksOk(text, breaks)
     THEN lines' = BuildLines(text, width, breaks) /\ pc' = "done"
     ELSE lines' = lines /\ pc' = "failed"
  /\ UNCHANGED <<text, width, split_limit, chars, breaks, line_start, line_len>>
  /\ UNCHANGED <<tblVars, restVars>>

InitTbl ==
  /\ tf_width = 0
  /\ cols = <<>>
  /\ col_widths = <<>>
  /\ tf_op = "none"
  /\ tf_arg = <<>>
  /\ tf_status = "none"
  /\ calls = <<>>
  /\ row_out = <<>>

\* a task directory that no call touches: no marker, no task file
IdleDisk ==
  /\ marker = <<>>
  /\ ck_op = "none"
  /\ ck_arg = <<>>
  /\ ck_ret = <<>>
  /\ stored = <<>>
  /\ cli_cmd = <<>>
  /\ cli_effects = <<>>
  /\ cli_applied = <<>>
  /\ cli_ret = "none"

\* no task list in use
IdleTasks ==
  /\ tasks = <<>>
  /\ tl_op = "none"
  /\ tl_arg = <<>>
  /\ tl_ret = <<>>

\* no tokenizer in use
IdleTok ==
  /\ tk_input = <<>>
  /\ tk_cat = [c \in {"a", " ", "U+00E9"} |-> IF c = " " THEN "Whitespace" ELSE "Word"]
  /\ byte_offset = 0
  /\ char_offset = 0
  /\ position = 0
  /\ tk_out = <<>>

InitRest == IdleTok /\ IdleTasks /\ IdleDisk

InitFmt ==
  /\ text \in Texts
  /\ width \in 1..MaxWidth
  /\ split_limit \in 0..MaxSplit
  /\ chars = 0
  /\ breaks = <<>>
  /\ line_start = 0
  /\ line_len = 0
  /\ lines = <<>>
  /\ pc = "loop"
  /\ InitTbl
  /\ InitRest

NextFmt ==
  \/ WhitespaceFits
  \/ WhitespaceBreak
  \/ WordFits
  \/ WordSplit
  \/ WordMove
  \/ Return

SpecFmt == InitFmt /\ [][NextFmt]_vars

\* ----------------------------------------------------------- TableFormatter
\* Option<usize>: None is the empty sequence, Some(w) the sequence <<w>>.
None == <<>>
Some(w) == <<w>>
is_some(o) == Len(o) = 1
is_none(o) == Len(o) = 0
unwrap(o) == o[1]

Labels == {"ID", "Name"}

\* the arguments given to set_columns: Vec<(&str, Option<usize>)>
ColumnSpecs ==
  UNION { [1..n -> Labels \X ({None} \cup {Some(w) : w \in 0..MaxColWidth})] : n \in 0..MaxCols }

\* the cell texts and rows given to print_row
\* format_to_column is explored on every text by its own specification; a
\* row is built from a few cells: empty, blank, short, two words, a word
\* longer than a column that hyphenates, and one that takes three lines.
CellMasks ==
  { <<>>, <<TRUE>>, <<FALSE>>, <<FALSE, FALSE>>, <<FALSE, TRUE, FALSE>>,
    [i \in 1..6 |-> FALSE], [i \in 1..9 |-> FALSE] }

CellTexts == { TextOfMask(m) : m \in CellMasks }
Rows == UNION { [1..n -> CellTexts] : n \in 0..MaxRowLen }

\* lines 45-46
RECURSIVE allocated_width(_)
allocated_width(c) ==
  IF c = <<>> THEN 0
  ELSE (IF is_some(c[1][2]) THEN unwrap(c[1][2]) + 1 ELSE 0) + allocated_width(Tail(c))

\* lines 49-50
num_without_width(c) == Cardinality({i \in 1..Len(c) : is_none(c[i][2])})

\* a variant that is off by one
TooWide_off_by_one(table_width, allocated) == table_width + 1 < allocated

\* line 54
TooWide(table_width, allocated) == table_width < allocated

\* a variant that records an explicit width with its inter-column space
RecordedWidth_spaced(o, width_per_col) == IF is_some(o) THEN unwrap(o) + 1 ELSE width_per_col

\* lines 61-72: the width recorded for one column
RecordedWidth(o, width_per_col) == IF is_some(o) THEN unwrap(o) ELSE width_per_col

\* TableFormatter::new, lines 30-36
New(w) ==
  /\ tf_op = "none"
  /\ tf_width' = w
  /\ cols' = <<>>
  /\ col_widths' = <<>>
  /\ tf_op' = "new"
  /\ tf_arg' = w
  /\ tf_status' = "ok"
  /\ UNCHANGED <<calls, row_out>>
  /\ UNCHANGED <<fmtVars, restVars>>

\* TableFormatter::set_columns, lines 42-73.  A panic ends the program: no
\* call follows it.
SetColumns(c) ==
  /\ tf_status = "ok"
  /\ Len(cols) + Len(c) <= MaxTotalCols
  /\ tf_op' = "set_columns"
  /\ tf_arg' = c
  /\ IF TooWide(tf_width, allocated_width(c))
     THEN \* line 55
          /\ tf_status' = "panic: Total width of columns is greater than the width of the table"
          /\ UNCHANGED <<cols, col_widths>>
     ELSE IF num_without_width(c) = 0
     THEN \* line 58: usize division by zero
          /\ tf_status' = "panic: attempt to divide by zero"
          /\ UNCHANGED <<cols, col_widths>>
     ELSE LET remaining_space == tf_width - allocated_width(c)
              width_per_col == remaining_space \div num_without_width(c)
          IN /\ cols' = cols \o [i \in 1..Len(c) |-> c[i][1]]
             /\ col_widths' = col_widths \o [i \in 1..Len(c) |-> RecordedWidth(c[i][2], width_per_col)]
             /\ tf_status' = "ok"
  /\ UNCHANGED <<tf_width, calls, row_out>>
  /\ UNCHANGED <<fmtVars, restVars>>

\* "{0: <width$}": left-aligned, padded with blanks to at least w characters
Pad(t, w) == t \o [i \in 1..(w - Len(t)) |-> " "]

Max(a, b) == IF a >= b THEN a ELSE b

\* a variant that looks at the first cell only
MaxLines_first(fitted) == IF fitted = <<>> THEN 1 ELSE Max(Len(fitted[1]), 1)

RECURSIVE MaxLines(_)
MaxLines(fitted) ==
  IF fitted = <<>> THEN 1 ELSE Max(Len(fitted[1]), MaxLines(Tail(fitted)))

\* lines 120-137: one physical line of the row
RECURSIVE RowLine(_, _, _, _)
RowLine(fitted, widths, line, col) ==
  IF col > Len(fitted) THEN <<>>
  ELSE (IF line <= Len(fitted[col])
        THEN Pad(fitted[col][line][1], widths[col])
               \o (IF fitted[col][line][2] THEN <<"-">> ELSE <<>>)
        ELSE Pad(<<>>, widths[col]))
       \o (IF col < Len(fitted) THEN <<" ">> ELSE <<>>)
       \o RowLine(fitted, widths, line, col + 1)

\* line 110
PrintRowSplitLimit == 7

\* TableFormatter::print_row, lines 97-141
PrintRow(row) ==
  /\ tf_status = "ok"
  /\ tf_op' = "print_row"
  /\ tf_arg' = row
  /\ LET n == IF Len(row) <= Len(col_widths) THEN Len(row) ELSE Len(col_widths) + 1
         \* the calls made before the first failure, that one included
         results == [i \in 1..Len(row) |->
                       IF i <= Len(col_widths)
                       THEN format_to_column(row[i], col_widths[i], PrintRowSplitLimit)
                       ELSE [lines |-> <<>>, fail |-> "index"]]
         bad == {i \in 1..Len(row) : results[i].fail # "none"}
         first_bad == CHOOSE i \in bad : \A j \in bad : i <= j
         made == IF bad = {} THEN Len(row)
                 ELSE IF results[first_bad].fail = "index" THEN first_bad - 1 ELSE first_bad
         fitted == [i \in 1..Len(row) |-> results[i].lines]
     IN /\ calls' = [i \in 1..made |-> <<row[i], col_widths[i], PrintRowSplitLimit>>]
        /\ IF bad = {}
           THEN /\ row_out' = [line \in 1..MaxLines(fitted) |-> RowLine(fitted, col_widths, line, 1)]
                /\ tf_status' = "ok"
           ELSE /\ row_out' = <<>>
                /\ tf_status' = IF results[first_bad].fail = "index"
                                THEN "panic: index out of bounds"
                                ELSE "failed: format_to_column " \o results[first_bad].fail
  /\ UNCHANGED <<tf_width, cols, col_widths>>
  /\ UNCHANGED <<fmtVars, restVars>>

InitTable ==
  /\ text = <<>>
  /\ width = 1
  /\ split_limit = 0
  /\ chars = 0
  /\ breaks = <<>>
  /\ line_start = 0
  /\ line_len = 0
  /\ lines = <<>>
  /\ pc = "idle"
  /\ InitTbl
  /\ InitRest

NextTable ==
  \/ \E w \in 0..MaxTableWidth : New(w)
  \/ \E c \in ColumnSpecs : SetColumns(c)

SpecTable == InitTable /\ [][NextTable]_vars

\* A caller that configures its formatter once, as print_task_list and
\* print_notes do (src/main.rs lines 447-453 and 492-493), and prints a row.
\* print_row borrows the formatter immutably (&self), so a further row would
\* be printed from the same formatter state as the first: a run prints one.
Configure(c) == cols = <<>> /\ SetColumns(c)

PrintFirstRow(row) == tf_op # "print_row" /\ PrintRow(row)

\* print_row reads the widths of the columns, never their labels: the caller
\* labels its columns "ID", "Name", "Name", ...
RowColumnSpecs ==
  { c \in ColumnSpecs : \A i \in 1..Len(c) : c[i][1] = IF i = 1 THEN "ID" ELSE "Name" }

\* a row with more cells than columns fails at the first cell without a
\* column (line 110), whatever follows it
RowsFor(n) == { row \in Rows : Len(row) <= n + 1 }

NextRow ==
  \/ \E w \in 0..MaxTableWidth : New(w)
  \/ \E c \in RowColumnSpecs : Configure(c)
  \/ \E row \in RowsFor(Len(col_widths)) : PrintFirstRow(row)

SpecRow == InitTable /\ [][NextRow]_vars

\* ------------------------------------ CharTokenIter (src/table/tokenizer.rs)

MaxTokLen == 4      \* characters of the input
MaxNone == 2        \* calls of next() that return None

\* A character is named by a string; "U+00E9" takes two bytes in UTF-8, the
\* others one.
TokAlphabet == {"a", " ", "U+00E9"}

Categories == {"Whitespace", "Word", "Punctation"}

Classifiers == [TokAlphabet -> Categories]

RECURSIVE InputsOfLen(_)
InputsOfLen(n) ==
  IF n = 0 THEN {<<>>}
  ELSE { Append(s, c) : s \in InputsOfLen(n - 1), c \in TokAlphabet }

Inputs == UNION { InputsOfLen(n) : n \in 0..MaxTokLen }

len_utf8(c) == IF c = "U+00E9" THEN 2 ELSE 1

\* str::len: the length in bytes
RECURSIVE len(_)
len(s) == IF s = <<>> THEN 0 ELSE len_utf8(Head(s)) + len(Tail(s))

\* str::chars().count()
chars_count_bytes(s) == len(s)

chars_count(s) == Len(s)

is_char_boundary(s, b) == \E k \in 0..Len(s) : len(SubSeq(s, 1, k)) = b

\* the number of characters of s that lie before the byte offset b
CharsBefore(s, b) == CHOOSE k \in 0..Len(s) : len(SubSeq(s, 1, k)) = b

\* &s[a..b], defined when a <= b and both are character boundaries
RangeOk(s, a, b) == a <= b /\ is_char_boundary(s, a) /\ is_char_boundary(s, b)

StrRange(s, a, b) == SubSeq(s, CharsBefore(s, a) + 1, CharsBefore(s, b))

\* s.char_indices(): each character with the byte offset it starts at
char_indices(s) == [k \in 1..Len(s) |-> <<len(SubSeq(s, 1, k - 1)), s[k]>>]

MAX_STACK_TERM_LEN == 15

Term_from_str(s) ==
  IF len(s) <= MAX_STACK_TERM_LEN
  THEN [kind |-> "Stack", s |-> s]
  ELSE [kind |-> "Heap", s |-> s]

Token_from_str_first_char(s, ty, start_offset, pos) ==
  [term |-> Term_from_str(SubSeq(s, 1, 1)), start_offset |-> start_offset,
   position |-> pos, ty |-> ty]

Token_from_str(s, ty, start_offset, pos) ==
  [term |-> Term_from_str(s), start_offset |-> start_offset, position |-> pos, ty |-> ty]

term(tok) == tok.term.s

\* The loop of next() (lines 82-101) over the characters from byte_offset
\* on: the index of the first character whose category differs from the
\* category of the first one, 0 when the loop runs out without meeting one.
FirstChange_second(ci, cat) ==
  LET D == { k \in 2..Len(ci) : cat[ci[k][2]] # cat[ci[k - 1][2]] }
  IN  IF Cardinality(D) <= 1 THEN 0
      ELSE CHOOSE k \in D : Cardinality({ j \in D : j < k }) = 1

FirstChange(ci, cat) ==
  LET D == { k \in 1..Len(ci) : cat[ci[k][2]] # cat[ci[1][2]] }
  IN  IF D = {} THEN 0 ELSE CHOOSE k \in D : \A j \in D : k <= j

Rest == StrRange(tk_input, byte_offset, len(tk_input))

NoneBudget == Cardinality({ i \in 1..Len(tk_out) : is_none(tk_out[i]) }) < MaxNone

\* next() returning at a change of category (lines 89-98)
NextAtChange ==
  /\ RangeOk(tk_input, byte_offset, len(tk_input))
  /\ LET ci == char_indices(Rest)
         k == FirstChange(ci, tk_cat)
     IN  /\ k # 0
         /\ LET bidx == ci[k][1]
                slice == StrRange(tk_input, byte_offset, byte_offset + bidx)
                token == Token_from_str(slice, tk_cat[ci[1][2]], char_offset, position)
            IN  /\ RangeOk(tk_input, byte_offset, byte_offset + bidx)
                /\ position' = position + 1
                /\ char_offset' = char_offset + chars_count(slice)
                /\ byte_offset' = byte_offset + bidx
                /\ tk_out' = Append(tk_out, Some(token))
  /\ UNCHANGED <<tk_input, tk_cat>>
  /\ UNCHANGED <<fmtVars, tblVars, tlVars, diskVars>>

\* next() returning the last run of the input (lines 103-107)
NextAtEnd ==
  /\ RangeOk(tk_input, byte_offset, len(tk_input))
  /\ LET ci == char_indices(Rest)
     IN  /\ FirstChange(ci, tk_cat) = 0
         /\ byte_offset < len(tk_input)
         /\ LET token == Token_from_str(Rest, tk_cat[ci[1][2]], char_offset, position)
            IN  /\ byte_offset' = len(tk_input)
                /\ tk_out' = Append(tk_out, Some(token))
  /\ UNCHANGED <<tk_input, tk_cat, char_offset, position>>
  /\ UNCHANGED <<fmtVars, tblVars, tlVars, diskVars>>

\* next() returning None (lines 108-110)
NextNone_restart ==
  /\ NoneBudget
  /\ RangeOk(tk_input, byte_offset, len(tk_input))
  /\ FirstChange(char_indices(Rest), tk_cat) = 0
  /\ ~(byte_offset < len(tk_input))
  /\ tk_out' = Append(tk_out, None)
  /\ byte_offset' = 0
  /\ UNCHANGED <<tk_input, tk_cat, char_offset, position>>
  /\ UNCHANGED <<fmtVars, tblVars, tlVars, diskVars>>

NextNone ==
  /\ NoneBudget
  /\ RangeOk(tk_input, byte_offset, len(tk_input))
  /\ FirstChange(char_indices(Rest), tk_cat) = 0
  /\ ~(byte_offset < len(tk_input))
  /\ tk_out' = Append(tk_out, None)
  /\ UNCHANGED <<tk_input, tk_cat, byte_offset, char_offset, position>>
  /\ UNCHANGED <<fmtVars, tblVars, tlVars, diskVars>>

\* CharTokenIter::new (lines 65-73)
CharTokenIter_new(input, cat) ==
  /\ tk_input = input
  /\ tk_cat = cat
  /\ byte_offset = 0
  /\ char_offset = 0
  /\ position = 0
  /\ tk_out = <<>>

IdleFmt ==
  /\ text = <<>>
  /\ width = 1
  /\ split_limit = 0
  /\ chars = 0
  /\ breaks = <<>>
  /\ line_start = 0
  /\ line_len = 0
  /\ lines = <<>>
  /\ pc = "idle"

InitTok ==
  /\ \E input \in Inputs, cat \in Classifiers : CharTokenIter_new(input, cat)
  /\ IdleFmt
  /\ InitTbl
  /\ IdleTasks
  /\ IdleDisk

NextTok ==
  \/ NextAtChange
  \/ NextAtEnd
  \/ NextNone

SpecTok == InitTok /\ [][NextTok]_vars

\* ------------------------------------------ TaskList (src/tasks/list.rs)

MaxTasks == 2       \* tasks in the list
MaxPriority == 1    \* priorities are 0..MaxPriority

Names == {"a", "b"}

Priorities == 0..MaxPriority

\* the values Utc::now() can give to created_at
Times == {0, 1}

\* the ids a caller passes: those of the list, 0, and one past the largest
Ids == 0..(MaxTasks + 1)

\* Task::new (src/tasks/task.rs lines 80-89)
Task_new(id, name, status, priority, now) ==
  [id |-> id, name |-> name, status |-> status, priority |-> priority,
   created_at |-> now, notes |-> <<>>]

RECURSIVE largest_id(_)
largest_id(ts) ==
  IF Len(ts) = 1 THEN ts[1].id ELSE Max(ts[Len(ts)].id, largest_id(SubSeq(ts, 1, Len(ts) - 1)))

\* lines 22-34
next_id_largest(ts) == IF Len(ts) = 0 THEN 1 ELSE largest_id(ts)

next_id(ts) == IF Len(ts) = 0 THEN 1 ELSE largest_id(ts) + 1

\* the index of the first task with the id, 0 if there is none
\* (iter().find, lines 44 and 48)
find(ts, id) ==
  LET F == { i \in 1..Len(ts) : ts[i].id = id }
  IN  IF F = {} THEN 0 ELSE CHOOSE i \in F : \A j \in F : i <= j

\* lines 47-49
get(ts, id) == IF find(ts, id) = 0 THEN None ELSE Some(ts[find(ts, id)])

\* lines 123-125
get_all(ts) == ts

\* lines 135-139
filter_other(ts, status) == SelectSeq(ts, LAMBDA t : t.status # status)

filter(ts, status) == SelectSeq(ts, LAMBDA t : t.status = status)

\* lines 127-129
get_open(ts) == filter(ts, "Open")

\* lines 131-133
get_closed(ts) == filter(ts, "Closed")

\* lines 43-45: the index of the task that get_mut(id) returns, 0 for None
get_mut(ts, id) == find(ts, id)

\* lines 51-57: the list after add_task and the id it returns; now is what
\* Utc::now() gives Task::new
add_task(ts, name, priority, now) ==
  [tasks |-> Append(ts, Task_new(next_id(ts), name, "Open", priority, now)),
   ret |-> next_id(ts)]

\* lines 59-67: the list after close_task and what it returns
close_task_and_reprioritise(ts, id) ==
  LET i == get_mut(ts, id)
      closed == [ts EXCEPT ![i].status = "Closed", ![i].priority = 0]
  IN  IF i = 0 THEN [tasks |-> ts, ret |-> None]
      ELSE [tasks |-> closed, ret |-> Some(closed[i])]

close_task(ts, id) ==
  LET i == get_mut(ts, id)
      closed == [ts EXCEPT ![i].status = "Closed"]
  IN  IF i = 0 THEN [tasks |-> ts, ret |-> None]
      ELSE [tasks |-> closed, ret |-> Some(closed[i])]

\* lines 69-78: the list after set_priority and what it returns
set_priority_and_reopen(ts, id, priority) ==
  LET i == get_mut(ts, id)
      changed == [ts EXCEPT ![i].priority = priority, ![i].status = "Open"]
  IN  IF i = 0 THEN [tasks |-> ts, ret |-> None]
      ELSE [tasks |-> changed, ret |-> Some(<<ts[i], changed[i]>>)]

set_priority(ts, id, priority) ==
  LET i == get_mut(ts, id)
      changed == [ts EXCEPT ![i].priority = priority]
  IN  IF i = 0 THEN [tasks |-> ts, ret |-> None]
      ELSE [tasks |-> changed, ret |-> Some(<<ts[i], changed[i]>>)]

AddTask(name, priority) ==
  /\ Len(tasks) < MaxTasks
  /\ \E now \in Times :
       /\ tasks' = add_task(tasks, name, priority, now).tasks
       /\ tl_ret' = <<add_task(tasks, name, priority, now).ret>>
  /\ tl_op' = "add_task"
  /\ tl_arg' = <<name, priority>>
  /\ UNCHANGED <<fmtVars, tblVars, tokVars, diskVars>>

CloseTask(id) ==
  /\ tasks' = close_task(tasks, id).tasks
  /\ tl_ret' = close_task(tasks, id).ret
  /\ tl_op' = "close_task"
  /\ tl_arg' = <<id>>
  /\ UNCHANGED <<fmtVars, tblVars, tokVars, diskVars>>

SetPriority(id, priority) ==
  /\ tasks' = set_priority(tasks, id, priority).tasks
  /\ tl_ret' = set_priority(tasks, id, priority).ret
  /\ tl_op' = "set_priority"
  /\ tl_arg' = <<id, priority>>
  /\ UNCHANGED <<fmtVars, tblVars, tokVars, diskVars>>

\* TaskList::new (lines 9-11)
InitTasks ==
  /\ IdleTasks
  /\ IdleFmt
  /\ InitTbl
  /\ IdleTok
  /\ IdleDisk

NextTasks ==
  \/ \E name \in Names, priority \in Priorities : AddTask(name, priority)
  \/ \E id \in Ids : CloseTask(id)
  \/ \E id \in Ids, priority \in Priorities : SetPriority(id, priority)

SpecTasks == InitTasks /\ [][NextTasks]_vars

\* ---------------------------------------- the checkout marker (src/io.rs)

MaxMarkerId == 11   \* commit_checkout is given ids 0..MaxMarkerId

MarkerIds == 0..MaxMarkerId

\* u32::MAX, 4294967295, as its decimal digits
U32_MAX == <<"4", "2", "9", "4", "9", "6", "7", "2", "9", "5">>

Ok(v) == <<"Ok", v>>
Err(e) == <<"Err", e>>
is_ok(r) == r[1] = "Ok"

Digits == <<"0", "1", "2", "3", "4", "5", "6", "7", "8", "9">>

\* format!("{}", id) (line 96)
RECURSIVE to_string(_)
to_string(n) ==
  IF n < 10 THEN <<Digits[n + 1]>>
  ELSE to_string(n \div 10) \o <<Digits[(n % 10) + 1]>>

is_digit(c) == \E v \in 0..9 : Digits[v + 1] = c

to_digit(c) == CHOOSE v \in 0..9 : Digits[v + 1] = c

RECURSIVE digits_value(_)
digits_value(s) ==
  IF s = <<>> THEN 0
  ELSE 10 * digits_value(SubSeq(s, 1, Len(s) - 1)) + to_digit(s[Len(s)])

RECURSIVE strip_zeros(_)
strip_zeros(s) == IF s # <<>> /\ s[1] = "0" THEN strip_zeros(Tail(s)) ELSE s

\* a and b are digit strings of one length: a is the larger number
RECURSIVE digits_gt(_, _)
digits_gt(a, b) ==
  IF a = <<>> THEN FALSE
  ELSE IF to_digit(a[1]) # to_digit(b[1]) THEN to_digit(a[1]) > to_digit(b[1])
  ELSE digits_gt(Tail(a), Tail(b))

\* the number written by the digits ds does not fit a u32
overflows_u32(ds) ==
  \/ Len(strip_zeros(ds)) > Len(U32_MAX)
  \/ Len(strip_zeros(ds)) = Len(U32_MAX) /\ digits_gt(strip_zeros(ds), U32_MAX)

\* s.parse::<u32>() (line 117): an optional '+', then one decimal digit or
\* more, of a value that fits 32 bits
parse_u32(s) ==
  LET ds == IF s # <<>> /\ s[1] = "+" THEN Tail(s) ELSE s
  IN  IF ds = <<>> THEN Err("Empty")
      ELSE IF \E k \in 1..Len(ds) : ~is_digit(ds[k]) THEN Err("InvalidDigit")
      ELSE IF overflows_u32(ds) THEN Err("PosOverflow")
      ELSE Ok(digits_value(ds))

\* Outcomes of the file system calls. File::create and write_all in
\* commit_checkout: "ok"; "create" (create fails, the file is as it was);
\* "write" (the file was created empty and write_all failed after writing
\* some of the bytes).
CreateWriteOutcomes == {"ok", "create", "write"}

StrictPrefixes(s) == { SubSeq(s, 1, k) : k \in 0..(Len(s) - 1) }

\* the marker after commit_checkout(id) and what the call returns
\* (lines 88-99)
commit_checkout_append(m, id, io, written) ==
  IF io = "ok" THEN [marker |-> Some((IF is_some(m) THEN unwrap(m) ELSE <<>>) \o to_string(id)),
                     ret |-> Ok("unit")]
  ELSE IF io = "create" THEN [marker |-> m, ret |-> Err("io")]
  ELSE [marker |-> Some(written), ret |-> Err("io")]

commit_checkout(m, id, io, written) ==
  IF io = "ok" THEN [marker |-> Some(to_string(id)), ret |-> Ok("unit")]
  ELSE IF io = "create" THEN [marker |-> m, ret |-> Err("io")]
  ELSE [marker |-> Some(written), ret |-> Err("io")]

\* what read_checkout returns (lines 101-120); io is "ok", or "open" / "read"
\* for a failure of File::open other than NotFound / of read_to_string
read_checkout(m, io) ==
  IF is_none(m) /\ io # "open" THEN Ok(None)
  ELSE IF io # "ok" THEN Err("io")
  ELSE IF is_ok(parse_u32(unwrap(m))) THEN Ok(Some(parse_u32(unwrap(m))[2]))
  ELSE Err("InvalidData")

\* the marker after commit_checkin and what the call returns (lines 122-134);
\* io is "ok", or "remove" for a failure of remove_file other than NotFound
commit_checkin_keep(m, io) ==
  IF io = "ok" /\ is_none(m) THEN [marker |-> None, ret |-> Ok("unit")]
  ELSE [marker |-> m, ret |-> (IF io = "ok" THEN Ok("unit") ELSE Err("io"))]

commit_checkin(m, io) ==
  IF io = "ok" THEN [marker |-> None, ret |-> Ok("unit")]
  ELSE [marker |-> m, ret |-> Err("io")]

CommitCheckout(id) ==
  /\ \E io \in CreateWriteOutcomes, written \in StrictPrefixes(to_string(id)) :
       /\ marker' = commit_checkout(marker, id, io, written).marker
       /\ ck_ret' = commit_checkout(marker, id, io, written).ret
  /\ ck_op' = "commit_checkout"
  /\ ck_arg' = <<id>>
  /\ UNCHANGED <<fmtVars, tblVars, tokVars, tlVars, cliVars>>

ReadCheckout ==
  /\ \E io \in {"ok", "open", "read"} : ck_ret' = read_checkout(marker, io)
  /\ ck_op' = "read_checkout"
  /\ ck_arg' = <<>>
  /\ UNCHANGED marker
  /\ UNCHANGED <<fmtVars, tblVars, tokVars, tlVars, cliVars>>

CommitCheckin ==
  /\ \E io \in {"ok", "remove"} :
       /\ marker' = commit_checkin(marker, io).marker
       /\ ck_ret' = commit_checkin(marker, io).ret
  /\ ck_op' = "commit_checkin"
  /\ ck_arg' = <<>>
  /\ UNCHANGED <<fmtVars, tblVars, tokVars, tlVars, cliVars>>

\* a task directory in which nothing was checked out yet
InitMarker ==
  /\ IdleDisk
  /\ IdleFmt
  /\ InitTbl
  /\ IdleTok
  /\ IdleTasks

NextMarker ==
  \/ \E id \in MarkerIds : CommitCheckout(id)
  \/ ReadCheckout
  \/ CommitCheckin

SpecMarker == InitMarker /\ [][NextMarker]_vars

\* ------------------------------- the task files (src/tasks/task.rs, list.rs)

MaxEntries == 2     \* tasks and notes of the list that a run writes

\* Note::new (task.rs lines 21-26)
Note_new(note, now) == [created_at |-> now, note |-> note]

\* Task::add_note (task.rs lines 123-125)
add_note(task, note, now) == [task EXCEPT !.notes = Append(@, Note_new(note, now))]

\* serde_yaml::to_string(task) (task.rs line 132): the fields of Task and
\* of Note in the order of their declaration, as a document of key: value
\* entries
note_to_yaml(n) == << <<"created_at", n.created_at>>, <<"note", n.note>> >>

RECURSIVE notes_to_yaml(_, _)
notes_to_yaml(notes, i) ==
  IF i > Len(notes) THEN <<>>
  ELSE <<note_to_yaml(notes[i])>> \o notes_to_yaml(notes, i + 1)

to_yaml(task) ==
  << <<"id", task.id>>, <<"name", task.name>>, <<"status", task.status>>,
     <<"created_at", task.created_at>>, <<"priority", task.priority>>,
     <<"notes", notes_to_yaml(task.notes, 1)>> >>

has_field(doc, k) == \E i \in 1..Len(doc) : doc[i][1] = k

field(doc, k) == doc[CHOOSE i \in 1..Len(doc) : doc[i][1] = k][2]

note_from_yaml(doc) == [created_at |-> field(doc, "created_at"), note |-> field(doc, "note")]

RECURSIVE notes_from_yaml(_, _)
notes_from_yaml(docs, i) ==
  IF i > Len(docs) THEN <<>>
  ELSE <<note_from_yaml(docs[i])>> \o notes_from_yaml(docs, i + 1)

\* serde_yaml::from_str::<Task> succeeds: the fields without a serde default
\* are there (task.rs lines 63-77)
parses(doc) == has_field(doc, "id") /\ has_field(doc, "name") /\ has_field(doc, "status")

\* serde_yaml::from_str::<Task>(&s) (task.rs line 143); created_at, priority
\* and notes have defaults (Utc::now, 0, no note)
from_yaml(doc, now) ==
  [id |-> field(doc, "id"), name |-> field(doc, "name"), status |-> field(doc, "status"),
   created_at |-> IF has_field(doc, "created_at") THEN field(doc, "created_at") ELSE now,
   priority |-> IF has_field(doc, "priority") THEN field(doc, "priority") ELSE 0,
   notes |-> IF has_field(doc, "notes") THEN notes_from_yaml(field(doc, "notes"), 1) ELSE <<>>]

\* the orders in which read_dir can list the files S (tasks/io.rs lines 1-21)
Orderings(S) ==
  { o \in [1..Cardinality(S) -> S] : \A i, j \in 1..Cardinality(S) : i # j => o[i] # o[j] }

\* the order by id
RECURSIVE Sorted(_)
Sorted(S) ==
  IF S = {} THEN <<>>
  ELSE LET m == CHOOSE x \in S : \A y \in S : x <= y
       IN  <<m>> \o Sorted(S \ {m})

\* TaskList::read_tasks (list.rs lines 12-20) with the files listed in the
\* given order: the tasks, or a panic at the unwrap of task.rs line 143
RECURSIVE read_each(_, _, _, _)
read_each(st, order, i, now) ==
  IF i > Len(order) THEN <<>>
  ELSE <<from_yaml(st[order[i]], now)>> \o read_each(st, order, i + 1, now)

read_tasks(st, order, now) ==
  IF \E i \in 1..Len(order) : ~parses(st[order[i]]) THEN <<"Panic", "from_str(..).unwrap()">>
  ELSE Ok(read_each(st, order, 1, now))

\* A failure of write_all: none, or the file where it fails (the k-th task
\* written) and the call that fails there ("create" or "write").
NoFailure == <<>>

WriteFailures(n) == {NoFailure} \cup { <<k, io>> : k \in 1..n, io \in {"create", "write"} }

\* Task::write (task.rs lines 127-135): the files after the call. File::create
\* empties the file, and a write_all that fails leaves it cut short: it is
\* modelled as left empty (a document cut before its status does not parse
\* either; one cut later, which would parse with defaults, is not modelled).
Task_write(st, task, io) ==
  IF io = "ok" THEN (task.id :> to_yaml(task)) @@ st
  ELSE IF io = "create" THEN st
  ELSE (task.id :> <<>>) @@ st

\* TaskList::write_all (list.rs lines 80-87) from the i-th task on: the files
\* after the call and what it returns
RECURSIVE write_all(_, _, _, _)
write_all(st, ts, i, fail) ==
  IF i > Len(ts) THEN [stored |-> st, ret |-> Ok(Len(ts))]
  ELSE IF fail # NoFailure /\ fail[1] = i
  THEN [stored |-> Task_write(st, ts[i], fail[2]), ret |-> Err("io")]
  ELSE write_all(Task_write(st, ts[i], "ok"), ts, i + 1, fail)

\* --------------------------------------------- the commands (src/main.rs)

CliNames == {"a"}                 \* the names given to add and checkout --add
CliNotes == {"n"}                 \* the texts of the notes
CliTimes == {0}                   \* Utc::now() during a run

\* the values of the ID argument: absent, the decimal writing of an id, or
\* a word that is no number
IdArgs == {None, Some(<<"x">>)} \cup { Some(to_string(i)) : i \in 1..(MaxEntries + 1) }

\* the values of --priority
PriorityArgs == {None, Some(<<"1">>), Some(<<"x">>)}

NoteArgs == {None} \cup { Some(n) : n \in CliNotes }

NameArgs == { Some(n) : n \in CliNames }

\* the matches of one subcommand (configure_cli, lines 134-224); what a
\* subcommand does not define is absent
NoArgs ==
  [sub |-> "", ID |-> None, add |-> None, input |-> None, priority |-> None,
   note |-> None, NOTE |-> None, list |-> FALSE, show |-> "open"]

Commands ==
  {NoArgs, [NoArgs EXCEPT !.sub = "init"], [NoArgs EXCEPT !.sub = "checkin"]}
  \cup { [NoArgs EXCEPT !.sub = "add", !.input = n, !.priority = p, !.note = t] :
           n \in NameArgs, p \in PriorityArgs, t \in NoteArgs }
  \cup { [NoArgs EXCEPT !.sub = "close", !.ID = i, !.note = t] : i \in IdArgs, t \in NoteArgs }
  \cup { [NoArgs EXCEPT !.sub = "checkout", !.ID = i, !.add = n] :
           i \in IdArgs, n \in {None} \cup NameArgs }
  \cup { [NoArgs EXCEPT !.sub = "edit", !.ID = i, !.priority = p] :
           i \in IdArgs, p \in PriorityArgs }
  \cup { [NoArgs EXCEPT !.sub = "note", !.NOTE = t, !.list = l] : t \in NoteArgs, l \in BOOLEAN }
  \cup { [NoArgs EXCEPT !.sub = "list", !.show = f] : f \in {"all", "closed", "open"} }

\* CommandEffect (lines 23-28)
Read == <<"Read">>
Write == <<"Write">>
CheckoutTask(id) == <<"CheckoutTask", id>>
CheckinTask == <<"CheckinTask">>

Panic(why) == <<"Panic", why>>
is_panic(r) == r[1] = "Panic"
is_err(r) == r[1] = "Err"

\* parse_integer_arg (lines 410-415)
parse_integer_arg(arg) ==
  IF is_none(arg) THEN Ok(None)
  ELSE IF is_ok(parse_u32(unwrap(arg))) THEN Ok(Some(parse_u32(unwrap(arg))[2]))
  ELSE Err("ParseIntError")

\* the task list with add_note applied to the task of this id, if there
\* is one (get_mut(id) followed by add_note)
with_note(ts, id, note, now) ==
  IF get_mut(ts, id) = 0 THEN ts
  ELSE [ts EXCEPT ![get_mut(ts, id)] = add_note(@, note, now)]

\* handle_add (lines 226-236)
handle_add(ts, args, now) ==
  LET priority == parse_u32(IF is_some(args.priority) THEN unwrap(args.priority) ELSE <<"1">>)
      added == add_task(ts, unwrap(args.input), priority[2], now)
  IN  IF ~is_ok(priority) THEN [tasks |-> ts, ret |-> Panic("parse().unwrap()")]
      ELSE [tasks |-> IF is_some(args.note)
                      THEN with_note(added.tasks, added.ret, unwrap(args.note), now)
                      ELSE added.tasks,
            ret |-> Ok(<<Write>>)]

\* the id a command works on: the ID argument, else the checked out task
\* (lines 240-244 and 306-310)
id_or_checked_out(checked_out_task, args) ==
  LET parsed == parse_integer_arg(args.ID)
  IN  IF ~is_ok(parsed) THEN Err("ParseIntError")
      ELSE IF is_some(parsed[2]) THEN Ok(unwrap(parsed[2]))
      ELSE IF is_some(checked_out_task) THEN Ok(unwrap(checked_out_task))
      ELSE Err("No ID provided and no task checked out")

\* handle_close (lines 238-258)
handle_close(ts, checked_out_task, args, now) ==
  LET id == id_or_checked_out(checked_out_task, args)
      noted == IF is_some(args.note) THEN with_note(ts, id[2], unwrap(args.note), now) ELSE ts
      closed == close_task(noted, id[2])
  IN  IF ~is_ok(id) THEN [tasks |-> ts, ret |-> id]
      ELSE IF is_none(closed.ret) THEN [tasks |-> closed.tasks, ret |-> Err("Could not find task")]
      ELSE [tasks |-> closed.tasks, ret |-> Ok(<<Write>>)]

\* handle_checkout (lines 260-293)
handle_checkout(ts, args, now) ==
  LET added == add_task(ts, unwrap(args.add), 1, now)
      parsed == parse_integer_arg(args.ID)
  IN  IF is_some(args.ID) /\ is_some(args.add) THEN [tasks |-> ts, ret |-> Err("ID and --add")]
      ELSE IF is_none(args.ID) /\ is_none(args.add) THEN [tasks |-> ts, ret |-> Err("neither")]
      ELSE IF is_some(args.add)
      THEN [tasks |-> added.tasks, ret |-> Ok(<<Write, CheckoutTask(added.ret)>>)]
      ELSE IF ~is_ok(parsed) THEN [tasks |-> ts, ret |-> Err("Invalid ID provided")]
      ELSE IF is_none(get(ts, unwrap(parsed[2])))
      THEN [tasks |-> ts, ret |-> Err("Could not find task")]
      ELSE [tasks |-> ts, ret |-> Ok(<<CheckoutTask(unwrap(parsed[2]))>>)]

\* handle_checkin (lines 295-298)
handle_checkin(ts) == [tasks |-> ts, ret |-> Ok(<<CheckinTask>>)]

\* handle_edit (lines 300-334)
handle_edit(ts, checked_out_task, args) ==
  LET id == id_or_checked_out(checked_out_task, args)
      priority == parse_integer_arg(args.priority)
      changed == set_priority(ts, id[2], unwrap(priority[2]))
  IN  IF ~is_ok(id) THEN [tasks |-> ts, ret |-> id]
      ELSE IF ~is_ok(priority) THEN [tasks |-> ts, ret |-> Err("Invalid priority value")]
      ELSE IF is_none(priority[2]) THEN [tasks |-> ts, ret |-> Ok(<<Read>>)]
      ELSE IF is_none(changed.ret) THEN [tasks |-> ts, ret |-> Err("Could not find task")]
      ELSE [tasks |-> changed.tasks, ret |-> Ok(<<Write>>)]

\* handle_note (lines 336-378); ID is a flag of this subcommand (line 201),
\* so that value_of("ID") is None and the id is the checked out task's.
\* printing panics when the terminal has no size or is too narrow for the
\* table (print_notes, lines 477-505)
handle_note(ts, checked_out_task, args, now, term_ok) ==
  LET id == unwrap(checked_out_task)
  IN  IF is_none(checked_out_task) THEN [tasks |-> ts, ret |-> Err("Must have a task checked out")]
      ELSE IF args.list \/ is_none(args.NOTE)
      THEN IF is_none(get(ts, id)) THEN [tasks |-> ts, ret |-> Err("Could not found task")]
           ELSE IF ~term_ok THEN [tasks |-> ts, ret |-> Panic("print_notes")]
           ELSE [tasks |-> ts, ret |-> Ok(<<Read>>)]
      ELSE IF get_mut(ts, id) = 0 THEN [tasks |-> ts, ret |-> Err("No task with id found")]
      ELSE [tasks |-> with_note(ts, id, unwrap(args.NOTE), now), ret |-> Ok(<<Write>>)]

\* handle_list (lines 380-399); print_task_list (lines 431-475) panics like
\* print_notes
handle_list(ts, checked_out_task, args, term_ok) ==
  IF ~term_ok THEN [tasks |-> ts, ret |-> Panic("print_task_list")]
  ELSE [tasks |-> ts, ret |-> Ok(<<Read>>)]

\* execute_command (lines 117-132)
execute_command(ts, checked_out_task, args, now, term_ok) ==
  IF args.sub = "add" THEN handle_add(ts, args, now)
  ELSE IF args.sub = "close" THEN handle_close(ts, checked_out_task, args, now)
  ELSE IF args.sub = "edit" THEN handle_edit(ts, checked_out_task, args)
  ELSE IF args.sub = "note" THEN handle_note(ts, checked_out_task, args, now, term_ok)
  ELSE IF args.sub = "checkout" THEN handle_checkout(ts, args, now)
  ELSE IF args.sub = "checkin" THEN handle_checkin(ts)
  ELSE handle_list(ts, checked_out_task, args, term_ok)

\* ------------------------------------------------- run (src/main.rs 48-113)

\* A failure of the marker's file system calls: none, or the call that
\* fails ("create" or "write" in commit_checkout, io.rs lines 89-99; any of them
\* stands for remove_file in commit_checkin, lines 123-134) and the number
\* of characters written before a failing write_all.
MarkerFailures == {NoFailure, <<"create", 0>>, <<"write", 0>>, <<"write", 1>>}

marker_io(mfail) == IF mfail = NoFailure THEN "ok" ELSE mfail[1]

\* the effects from the i-th on, applied in order until one fails (lines
\* 86-107: collect() stops at the first Err): the files and the marker
\* afterwards, the effects applied, and what run returns
RECURSIVE apply_effects(_, _, _, _, _, _, _)
apply_effects(st, mk, ts, effects, i, wfail, mfail) ==
  IF i > Len(effects)
  THEN [stored |-> st, marker |-> mk, applied |-> effects, ret |-> Ok("unit")]
  ELSE LET effect == effects[i]
           written == write_all(st, ts, 1, wfail)
           out == commit_checkout(mk, effect[2], marker_io(mfail),
                                  IF mfail = NoFailure THEN <<>>
                                  ELSE SubSeq(to_string(effect[2]), 1, mfail[2]))
           checkin == commit_checkin(mk, marker_io(mfail))
           stop(st2, mk2) ==
             [stored |-> st2, marker |-> mk2, applied |-> SubSeq(effects, 1, i - 1),
              ret |-> Err("io")]
       IN  IF effect = Read THEN apply_effects(st, mk, ts, effects, i + 1, wfail, mfail)
           ELSE IF effect = Write
           THEN IF is_ok(written.ret)
                THEN apply_effects(written.stored, mk, ts, effects, i + 1, wfail, mfail)
                ELSE stop(written.stored, mk)
           ELSE IF effect = CheckinTask
           THEN IF is_ok(checkin.ret)
                THEN apply_effects(st, checkin.marker, ts, effects, i + 1, wfail, mfail)
                ELSE stop(st, checkin.marker)
           ELSE IF is_ok(out.ret)
                THEN apply_effects(st, out.marker, ts, effects, i + 1, wfail, mfail)
                ELSE stop(st, out.marker)

\* the tasks and the notes of a list
RECURSIVE EntriesFrom(_, _)
EntriesFrom(ts, i) ==
  IF i > Len(ts) THEN 0 ELSE 1 + Len(ts[i].notes) + EntriesFrom(ts, i + 1)

Entries(ts) == EntriesFrom(ts, 1)

\* what a run records of its matches: the subcommand, and for checkout
\* its arguments
RecordedArgs(args) == IF args.sub = "checkout" THEN args ELSE [NoArgs EXCEPT !.sub = args.sub]

\* a run that ends before execute_command: tisk init in an initialized
\* directory (lines 48-53, io.rs lines 66-74), or one that fails to find or
\* to read the directory, a task file or the marker (lines 56-60, 81-82)
RunWithoutCommand(ret) ==
  /\ cli_cmd' = <<>>
  /\ cli_effects' = <<>>
  /\ cli_applied' = <<>>
  /\ cli_ret' = ret
  /\ UNCHANGED <<stored, marker>>

RunInit ==
  /\ RunWithoutCommand("ok")
  /\ UNCHANGED <<fmtVars, tblVars, tokVars, tlVars, ck_op, ck_arg, ck_ret>>

RunReadFails ==
  /\ RunWithoutCommand("err")
  /\ UNCHANGED <<fmtVars, tblVars, tokVars, tlVars, ck_op, ck_arg, ck_ret>>

\* a run whose command panics or returns an error: no effect is applied
RunStops(args, ret) ==
  /\ cli_cmd' = RecordedArgs(args)
  /\ cli_effects' = <<>>
  /\ cli_applied' = <<>>
  /\ cli_ret' = ret
  /\ UNCHANGED <<stored, marker>>

\* run (lines 48-113) of any other subcommand
RunCommand(args, loaded, checked_out_task, now, term_ok, wfail, mfail) ==
  \E res \in {execute_command(loaded, checked_out_task, args, now, term_ok)} :
    IF is_panic(res.ret) THEN RunStops(args, "panic")
    ELSE IF is_err(res.ret) THEN RunStops(args, "err")
    ELSE /\ Entries(res.tasks) <= MaxEntries
         /\ \E out \in {apply_effects(stored, marker, res.tasks, res.ret[2], 1, wfail, mfail)} :
              /\ cli_cmd' = RecordedArgs(args)
              /\ cli_effects' = res.ret[2]
              /\ cli_applied' = out.applied
              /\ cli_ret' = IF is_ok(out.ret) THEN "ok" ELSE "err"
              /\ stored' = out.stored
              /\ marker' = out.marker

run(args, order, now, term_ok, wfail, mfail) ==
  /\ args.sub # "init"
  /\ \E loaded \in {read_tasks(stored, order, now)},
        checked_out_task \in {read_checkout(marker, "ok")} :
       IF is_panic(loaded) THEN RunWithoutCommand("panic")
       ELSE IF ~is_ok(checked_out_task) THEN RunWithoutCommand("err")
       ELSE RunCommand(args, loaded[2], checked_out_task[2], now, term_ok, wfail, mfail)
  /\ UNCHANGED <<fmtVars, tblVars, tokVars, tlVars, ck_op, ck_arg, ck_ret>>

\* what a command is going to do: its effects and the number of tasks it
\* has in memory; no effect when the run does not get that far
PlanOf(args, now, term_ok) ==
  LET loaded == read_tasks(stored, Sorted(DOMAIN stored), now)
      checked_out_task == read_checkout(marker, "ok")
      res == execute_command(loaded[2], checked_out_task[2], args, now, term_ok)
  IN  IF is_panic(loaded) \/ ~is_ok(checked_out_task) THEN [effects |-> <<>>, tasks |-> 0]
      ELSE IF is_ok(res.ret) /\ Entries(res.tasks) <= MaxEntries
      THEN [effects |-> res.ret[2], tasks |-> Len(res.tasks)]
      ELSE [effects |-> <<>>, tasks |-> 0]

\* the failures that a run with this plan can meet: one of write_all
\* where the tasks are written, one of the marker where it is committed
WriteFailuresOf(plan) ==
  IF \E i \in 1..Len(plan.effects) : plan.effects[i] = Write
  THEN WriteFailures(plan.tasks)
  ELSE {NoFailure}

MarkerFailuresOf(plan, wfail) ==
  IF wfail # NoFailure THEN {NoFailure}
  ELSE IF \E i \in 1..Len(plan.effects) : plan.effects[i][1] = "CheckoutTask"
  THEN { f \in MarkerFailures :
           f # NoFailure /\ f[1] = "write" =>
             \A i \in 1..Len(plan.effects) :
               plan.effects[i][1] = "CheckoutTask" =>
                 f[2] < Len(to_string(plan.effects[i][2])) }
  ELSE IF \E i \in 1..Len(plan.effects) : plan.effects[i] = CheckinTask
  THEN {NoFailure, <<"create", 0>>}
  ELSE {NoFailure}

\* the terminal matters where a table is printed
TerminalsOf(args) == IF args.sub \in {"", "list", "note"} THEN BOOLEAN ELSE {TRUE}

\* the order of the files matters where write_all stops
OrderingsOf(wfail) ==
  IF wfail = NoFailure THEN {Sorted(DOMAIN stored)} ELSE Orderings(DOMAIN stored)

InitCli ==
  /\ IdleFmt
  /\ InitTbl
  /\ IdleTok
  /\ IdleTasks
  /\ IdleDisk

\* one run of tisk with a subcommand, in an environment drawn from those
\* that the run can tell apart
Run ==
  \E args \in Commands, now \in CliTimes :
    \E term_ok \in TerminalsOf(args) :
      \E plan \in {PlanOf(args, now, term_ok)} :
        \E wfail \in WriteFailuresOf(plan) :
          \E mfail \in MarkerFailuresOf(plan, wfail), order \in OrderingsOf(wfail) :
            run(args, order, now, term_ok, wfail, mfail)

NextCli ==
  \/ RunInit
  \/ RunReadFails
  \/ Run

SpecCli == InitCli /\ [][NextCli]_vars

\* ------------------------------------------------- properties of the output
Done == pc = "done"

\* segment i of the output is the slice [SegStart(i), SegEnd(i)) of the text
SegStart(i) == breaks[i][1]
SegEnd(i) == breaks[i][1] + breaks[i][2]

RECURSIVE ConcatLines(_)
ConcatLines(ls) == IF ls = <<>> THEN <<>> ELSE ls[1][1] \o ConcatLines(Tail(ls))

\* t[a..b] (1-based, inclusive) is a maximal run of non-whitespace characters
IsWordRun(t, a, b) ==
  /\ 1 <= a /\ a <= b /\ b <= Len(t)
  /\ \A k \in a..b : ~is_whitespace(t[k])
  /\ (a = 1 \/ is_whitespace(t[a - 1]))
  /\ (b = Len(t) \/ is_whitespace(t[b + 1]))

\* the run t[a..b] lies inside one segment of the output
WholeInOneSegment(a, b) ==
  \E i \in 1..Len(breaks) : SegStart(i) <= a - 1 /\ b <= SegEnd(i)

\* the 0-based offset p lies strictly inside a word of t
InsideWord(t, p) ==
  p >= 1 /\ p < Len(t) /\ ~is_whitespace(t[p]) /\ ~is_whitespace(t[p + 1])

\* C1: every returned segment has at most width characters, and at most
\* width - 1 when it is flagged hyphenated and width > 4.
C1_NoOverflow ==
  Done => \A i \in 1..Len(lines) :
            /\ Len(lines[i][1]) <= width
            /\ (lines[i][2] /\ width > 4 => Len(lines[i][1]) <= width - 1)

C6_SplitLimitIgnored ==
  Done /\ split_limit >= width
    => \A s2 \in 0..MaxSplit :
         s2 >= width => format_to_column(text, width, s2) = [lines |-> lines, fail |-> "none"]

C6_Witness ==
  /\ Done
  /\ split_limit > width
  /\ \E a \in 1..Len(text) : \E b \in (a + width)..Len(text) :
       IsWordRun(text, a, b) /\ b - a + 1 <= split_limit
  /\ Len(lines) >= 2

RECURSIVE ExplicitPlusSpacing(_)
ExplicitPlusSpacing(c) ==
  IF c = <<>> THEN 0
  ELSE (IF c[1][2] = None THEN 0 ELSE c[1][2][1] + 1) + ExplicitPlusSpacing(Tail(c))

AllExplicit(c) == \A i \in 1..Len(c) : c[i][2] # None

WidthPanic == "panic: Total width of columns is greater than the width of the table"

\* C8: no column of a formatter has width 0, and print_row never gives
\* format_to_column a width of 0.
C8_ZeroWidthRejected ==
  /\ \A i \in 1..Len(col_widths) : col_widths[i] >= 1
  /\ \A k \in 1..Len(calls) : calls[k][2] >= 1

C10_AllExplicitAccepted ==
  tf_op = "set_columns" /\ AllExplicit(tf_arg) /\ ExplicitPlusSpacing(tf_arg) <= tf_width
    => /\ tf_status = "ok"
       /\ Len(col_widths) >= Len(tf_arg)
       /\ \A i \in 1..Len(tf_arg) :
            col_widths[Len(col_widths) - Len(tf_arg) + i] = tf_arg[i][2][1]

\* the number of columns of c without an explicit width
Unsized(c) == Cardinality({i \in 1..Len(c) : c[i][2] = None})

\* the last set_columns call returned
SetColumnsReturned == tf_op = "set_columns" /\ tf_status = "ok"

\* the index in cols and col_widths of the i-th column of the last call
Recorded(i) == Len(col_widths) - Len(tf_arg) + i

\* C11: after a successful set_columns the columns of the call are recorded
\* in the order supplied, an explicit width as given and every other column
\* with (W - sum of (w_i + 1)) div (number of columns without a width).
C11_ColumnWidths ==
  SetColumnsReturned =>
    /\ Len(col_widths) >= Len(tf_arg) /\ Len(cols) = Len(col_widths)
    /\ \A i \in 1..Len(tf_arg) :
         /\ cols[Recorded(i)] = tf_arg[i][1]
         /\ col_widths[Recorded(i)] =
              IF tf_arg[i][2] # None THEN tf_arg[i][2][1]
              ELSE (tf_width - ExplicitPlusSpacing(tf_arg)) \div Unsized(tf_arg)

C11_Witness ==
  /\ SetColumnsReturned
  /\ Len(tf_arg) = 2 /\ tf_arg[1][1] # tf_arg[2][1]
  /\ tf_arg[1][2] = None /\ tf_arg[2][2] # None /\ tf_arg[2][2][1] > 0
  /\ col_widths[Recorded(1)] > 0

\* the last print_row call returned
PrintRowReturned == tf_op = "print_row" /\ tf_status = "ok"

RECURSIVE SumSeq(_)
SumSeq(q) == IF q = <<>> THEN 0 ELSE q[1] + SumSeq(Tail(q))

\* the length of a physical line of n cells: the widths of the first n
\* columns and one separator between adjacent cells
RowWidth(n) == SumSeq(SubSeq(col_widths, 1, n)) + (IF n > 0 THEN n - 1 ELSE 0)

\* C12: every physical line print_row returns is as long as the widths of
\* the row's columns plus one separator between adjacent columns (every cell
\* fills exactly its column), for columns at least one character wide.
C12_CellsFillColumns ==
  PrintRowReturned /\ (\A i \in 1..Len(col_widths) : col_widths[i] >= 1)
    => \A l \in 1..Len(row_out) : Len(row_out[l]) = RowWidth(Len(tf_arg))

\* the segments format_to_column returns for cell i of the printed row
CellSegments(i) == format_to_column(tf_arg[i], col_widths[i], 7).lines

\* the largest number of segments of a cell of the printed row, 0 without cells
RECURSIVE MostSegments(_)
MostSegments(i) ==
  IF i = 0 THEN 0
  ELSE LET n == Len(CellSegments(i))
           m == MostSegments(i - 1)
       IN IF n >= m THEN n ELSE m

\* the number of characters cell j takes on physical line l
CellLen(l, j) ==
  IF l <= Len(CellSegments(j))
  THEN LET seg == CellSegments(j)[l]
       IN (IF Len(seg[1]) >= col_widths[j] THEN Len(seg[1]) ELSE col_widths[j])
            + (IF seg[2] THEN 1 ELSE 0)
  ELSE col_widths[j]

\* the offset of cell i in physical line l
RECURSIVE CellOffset(_, _)
CellOffset(l, i) == IF i = 1 THEN 0 ELSE CellOffset(l, i - 1) + CellLen(l, i - 1) + 1

\* cell i is blank padding of its column's width on physical line l
BlankCell(l, i) ==
  /\ Len(row_out[l]) >= CellOffset(l, i) + col_widths[i]
  /\ \A k \in 1..col_widths[i] : row_out[l][CellOffset(l, i) + k] = " "

\* C13 as stated: print_row returns as many physical lines as the largest
\* number of segments of a cell of the row (for a row with a cell and columns
\* at least one character wide).
C13_LinesAreMostSegments ==
  /\ PrintRowReturned /\ Len(tf_arg) >= 1
  /\ \A i \in 1..Len(col_widths) : col_widths[i] >= 1
  => Len(row_out) = MostSegments(Len(tf_arg))

\* C13 as amended: print_row returns n physical lines, n the largest number
\* of segments of a cell of the row and at least 1, and a cell with fewer
\* than n segments is blank padding on its remaining lines.
C13_LinesAndPadding ==
  PrintRowReturned =>
    /\ Len(row_out) = (IF MostSegments(Len(tf_arg)) >= 1 THEN MostSegments(Len(tf_arg)) ELSE 1)
    /\ \A i \in 1..Len(tf_arg) : \A l \in 1..Len(row_out) :
         l > Len(CellSegments(i)) => BlankCell(l, i)

C13_Witness ==
  /\ PrintRowReturned
  /\ Len(tf_arg) = 2
  /\ Len(CellSegments(1)) >= 2
  /\ Len(CellSegments(2)) = 1
  /\ col_widths[2] >= 1

WordDoesNotFit ==
  /\ InLoop
  /\ ~is_whitespace(text[chars + 1])
  /\ CurWordLen + line_len > width
  /\ chars' # chars

\* the current line is flushed as it is, not hyphenated, and the whole word
\* starts the next line
MovedWhole ==
  /\ Len(breaks') > Len(breaks)
  /\ breaks'[Len(breaks) + 1] = <<line_start, line_len, FALSE>>
  /\ line_start' = line_start + line_len
  /\ line_len' = CurWordLen

\* the word is split: the current line is flushed at width less the room of
\* the hyphen, filled up with the first characters of the word
SplitAcross ==
  /\ Len(breaks') > Len(breaks)
  /\ breaks'[Len(breaks) + 1][1] = line_start
  /\ breaks'[Len(breaks) + 1][2] = width - (IF width > 4 THEN 1 ELSE 0)
  /\ line_start' >= line_start + line_len

C25_Step ==
  (WordDoesNotFit /\ split_limit < width /\ CurWordLen <= split_limit) => MovedWhole

C25_Whole ==
  (Done /\ split_limit < width) =>
    \A a \in 1..Len(text) : \A b \in a..Len(text) :
      (IsWordRun(text, a, b) /\ b - a + 1 <= split_limit) => WholeInOneSegment(a, b)

C28_NoEmptyNoTrailingHyphen ==
  Done =>
    /\ \A i \in 1..Len(lines) : lines[i][1] # <<>>
    /\ lines # <<>> => ~lines[Len(lines)][2]

C28_Witness ==
  /\ Done
  /\ width >= 5
  /\ Len(lines) >= 2
  /\ lines[Len(lines) - 1][2]
  /\ ~lines[Len(lines)][2]
  /\ Len(lines[Len(lines)][1]) = 1

\* C26: after set_columns(c) returns, the formatter has exactly the columns
\* of c: c's labels in c's order and one width for each, whatever set_columns
\* calls were made on the formatter before.
C26_SetColumnsReplaces ==
  SetColumnsReturned =>
    /\ Len(cols) = Len(tf_arg)
    /\ Len(col_widths) = Len(tf_arg)
    /\ \A i \in 1..Len(tf_arg) : cols[i] = tf_arg[i][1]

\* C27: after a successful set_columns the widths of all columns plus one
\* separator between adjacent columns come to at most the table width, so no
\* physical line of a row with one cell for each column is longer than the
\* table width.
C27_RowsFitTable ==
  (\A i \in 1..Len(col_widths) : col_widths[i] >= 1) =>
    /\ SetColumnsReturned => RowWidth(Len(col_widths)) <= tf_width
    /\ (PrintRowReturned /\ Len(tf_arg) = Len(col_widths))
         => \A l \in 1..Len(row_out) : Len(row_out[l]) <= tf_width

\* ------------------------------------------- properties of the tokenizer

\* the tokens that the calls of next() yielded so far, in order
Yielded == SelectSeq(tk_out, is_some)

YieldedToken(i) == unwrap(Yielded[i])

Exhausted == tk_out # <<>> /\ is_none(tk_out[Len(tk_out)])

RECURSIVE ConcatTerms(_)
ConcatTerms(toks) ==
  IF toks = <<>> THEN <<>> ELSE term(unwrap(Head(toks))) \o ConcatTerms(Tail(toks))

\* C14: once the iterator is exhausted, the term texts of the tokens it
\* yielded, concatenated in the order yielded, are the input, for every input
\* and every classification function.
C14_TokensLossless == Exhausted => ConcatTerms(Yielded) = tk_input

C14_Witness ==
  /\ Exhausted
  /\ Len(Yielded) >= 3
  /\ \E i \in 1..Len(tk_input) : tk_input[i] = "U+00E9"
  /\ ConcatTerms(Yielded) = tk_input

\* C15: every token yielded is non-empty, all its characters have the
\* category recorded in the token, and two consecutive tokens have different
\* categories.
C15_MaximalRuns ==
  /\ \A i \in 1..Len(Yielded) :
       /\ term(YieldedToken(i)) # <<>>
       /\ \A k \in 1..Len(term(YieldedToken(i))) :
            tk_cat[term(YieldedToken(i))[k]] = YieldedToken(i).ty
  /\ \A i \in 1..(Len(Yielded) - 1) : YieldedToken(i).ty # YieldedToken(i + 1).ty

C15_Witness ==
  /\ Len(Yielded) >= 2
  /\ \E i \in 1..Len(Yielded) : Len(term(YieldedToken(i))) >= 2
  /\ \E i, j \in 1..Len(tk_input) : i # j /\ tk_cat[tk_input[i]] = tk_cat[tk_input[j]] /\ tk_input[i] # tk_input[j]

\* C16: a token's start_offset is the number of characters of the input
\* before it, and its position is the number of tokens yielded before it.
C16_OffsetsAndPositions ==
  \A i \in 1..Len(Yielded) :
    /\ YieldedToken(i).start_offset = Len(ConcatTerms(SubSeq(Yielded, 1, i - 1)))
    /\ YieldedToken(i).position = i - 1

C16_Witness ==
  /\ Len(Yielded) >= 3
  /\ term(YieldedToken(1)) = <<"U+00E9">>
  /\ YieldedToken(3).start_offset = 2
  /\ YieldedToken(3).position = 2

\* C17: the sequence of tokens is finite and exhaustion is permanent: on the
\* empty input the first next() returns None, a one-character input yields
\* exactly one token, and after a None every later next() returns None.
C17_ExhaustionPermanent ==
  /\ Len(Yielded) <= Len(tk_input)
  /\ (tk_input = <<>> /\ tk_out # <<>>) => is_none(tk_out[1])
  /\ (Len(tk_input) = 1 /\ tk_out # <<>>) => is_some(tk_out[1])
  /\ (Len(tk_input) = 1 /\ Len(tk_out) >= 2) => is_none(tk_out[2])
  /\ \A i, j \in 1..Len(tk_out) : (i < j /\ is_none(tk_out[i])) => is_none(tk_out[j])

C17_Witness ==
  /\ Len(tk_input) = 1
  /\ Len(tk_out) = 3
  /\ is_some(tk_out[1])
  /\ is_none(tk_out[2])
  /\ is_none(tk_out[3])

\* -------------------------------------------- properties of the task list

\* the list as it was before the add_task that the state follows
BeforeAdd == SubSeq(tasks, 1, Len(tasks) - 1)

\* C20: add_task returns 1 on an empty list and otherwise one more than the
\* largest id of the list, and stores a task with that id, the given name and
\* priority, status Open and no notes; so from TaskList::new() on, under
\* add_task, close_task and set_priority, the ids of the list are distinct
\* and get(id) returns the task created with that id.
C20_AddTaskStored ==
  tl_op = "add_task" =>
    /\ tl_ret = << IF BeforeAdd = <<>> THEN 1
                   ELSE 1 + CHOOSE m \in { BeforeAdd[i].id : i \in 1..Len(BeforeAdd) } :
                              \A i \in 1..Len(BeforeAdd) : BeforeAdd[i].id <= m >>
    /\ tasks[Len(tasks)].id = tl_ret[1]
    /\ tasks[Len(tasks)].name = tl_arg[1]
    /\ tasks[Len(tasks)].priority = tl_arg[2]
    /\ tasks[Len(tasks)].status = "Open"
    /\ tasks[Len(tasks)].notes = <<>>

C20_IdsDistinct ==
  /\ \A i, j \in 1..Len(tasks) : i # j => tasks[i].id # tasks[j].id
  /\ \A i \in 1..Len(tasks) : get(tasks, tasks[i].id) = Some(tasks[i])

\* a task keeps the id, the name and the creation time it was created with
C20_SameTask ==
  \A i \in 1..Len(tasks) :
    /\ i <= Len(tasks')
    /\ tasks'[i].id = tasks[i].id
    /\ tasks'[i].name = tasks[i].name
    /\ tasks'[i].created_at = tasks[i].created_at

C20_AddTaskIds == [](C20_AddTaskStored /\ C20_IdsDistinct) /\ [][C20_SameTask]_vars

C20_Witness ==
  /\ tl_op = "add_task"
  /\ tl_ret = <<2>>
  /\ Len(tasks) = 2
  /\ tasks[1].status = "Closed"
  /\ tasks[1].priority # tasks[2].priority
  /\ get(tasks, 2) = Some(tasks[2])

HasId(ts, id) == \E i \in 1..Len(ts) : ts[i].id = id

\* the list ts with field f of every task with the id set to v
WithField(ts, id, f, v) ==
  [i \in 1..Len(ts) |-> IF ts[i].id = id THEN [ts[i] EXCEPT ![f] = v] ELSE ts[i]]

TheTask(ts, id) == ts[CHOOSE i \in 1..Len(ts) : ts[i].id = id]

\* C21: close_task(id) sets only the status of the task with the id, to
\* Closed; set_priority(id, p) sets only that task's priority, to p, and
\* returns the task as it was together with the task as it is; for an id not
\* in the list both return None and leave the list as it was.
C21_Step ==
  /\ tl_op' = "close_task" =>
       IF HasId(tasks, tl_arg'[1])
       THEN /\ tasks' = WithField(tasks, tl_arg'[1], "status", "Closed")
            /\ tl_ret' = Some(TheTask(tasks', tl_arg'[1]))
       ELSE tasks' = tasks /\ tl_ret' = None
  /\ tl_op' = "set_priority" =>
       IF HasId(tasks, tl_arg'[1])
       THEN /\ tasks' = WithField(tasks, tl_arg'[1], "priority", tl_arg'[2])
            /\ tl_ret' = Some(<<TheTask(tasks, tl_arg'[1]), TheTask(tasks', tl_arg'[1])>>)
       ELSE tasks' = tasks /\ tl_ret' = None

C21_OnlyTargetedField == [][C21_Step]_vars

C21_Witness ==
  /\ tl_op = "set_priority"
  /\ Len(tasks) = 2
  /\ is_some(tl_ret)
  /\ unwrap(tl_ret)[1].id = 2
  /\ unwrap(tl_ret)[1].priority # unwrap(tl_ret)[2].priority
  /\ unwrap(tl_ret)[2] = tasks[2]
  /\ tasks[1].status = "Closed"
  /\ tasks[1].priority # tasks[2].priority

\* s is t with some elements left out, the others in t's order
RECURSIVE IsSubsequence(_, _)
IsSubsequence(s, t) ==
  IF s = <<>> THEN TRUE
  ELSE IF t = <<>> THEN FALSE
  ELSE IF Head(s) = Head(t) THEN IsSubsequence(Tail(s), Tail(t))
  ELSE IsSubsequence(s, Tail(t))

Occurrences(ts, t) == Cardinality({ i \in 1..Len(ts) : ts[i] = t })

\* C22: get_open and get_closed partition get_all by status, and all three
\* return the tasks in the order in which they were added.
C22_OpenClosedPartition ==
  /\ \A i \in 1..Len(tasks) : get_all(tasks)[i].id = i
  /\ Len(get_all(tasks)) = Len(tasks)
  /\ \A i \in 1..Len(get_open(tasks)) : get_open(tasks)[i].status = "Open"
  /\ \A i \in 1..Len(get_closed(tasks)) : get_closed(tasks)[i].status = "Closed"
  /\ \A i \in 1..Len(tasks) :
       /\ Occurrences(get_open(tasks), tasks[i]) = (IF tasks[i].status = "Open" THEN 1 ELSE 0)
       /\ Occurrences(get_closed(tasks), tasks[i]) = (IF tasks[i].status = "Closed" THEN 1 ELSE 0)
  /\ Len(get_open(tasks)) + Len(get_closed(tasks)) = Len(tasks)
  /\ IsSubsequence(get_open(tasks), get_all(tasks))
  /\ IsSubsequence(get_closed(tasks), get_all(tasks))

C22_Witness ==
  /\ Len(tasks) = 2
  /\ Len(get_open(tasks)) = 1
  /\ Len(get_closed(tasks)) = 1
  /\ get_closed(tasks)[1].id = 1
  /\ get_open(tasks)[1].id = 2

\* ------------------------------------- properties of the checkout marker

\* C23: read_checkout returns Some(id) for the id of the latest
\* commit_checkout when no commit_checkin followed it, and None otherwise,
\* also when nothing was ever checked out; commit_checkin on an absent marker
\* succeeds and leaves it absent. Stated of the calls that succeed: each
\* successful commit decides what read_checkout returns, and it stays decided
\* until a later commit writes the marker.
C23_Start == ck_op = "none" => read_checkout(marker, "ok") = Ok(None)

C23_Step ==
  /\ (ck_op' = "commit_checkout" /\ is_ok(ck_ret'))
       => read_checkout(marker', "ok") = Ok(Some(ck_arg'[1]))
  /\ (ck_op' = "commit_checkin" /\ is_ok(ck_ret'))
       => read_checkout(marker', "ok") = Ok(None)
  /\ (ck_op' = "commit_checkin" /\ is_none(marker))
       => (is_none(marker') /\ (ck_ret' = Ok("unit") \/ ck_ret' = Err("io")))
  /\ (ck_op' = "commit_checkin" /\ ~is_ok(ck_ret')) => marker' = marker
  /\ ck_op' = "read_checkout"
       => (marker' = marker /\ (is_ok(ck_ret') => ck_ret' = read_checkout(marker, "ok")))

HoldsTask(st, id) == id \in DOMAIN st /\ parses(st[id])

\* C29: Closed is absorbing. A task that is Closed, in the list of a
\* TaskList or in its file, is Closed after every TaskList operation
\* (add_task, close_task, set_priority) and after every run of a command
\* (add, close, edit, note, checkout, checkin, list), with the id and the
\* name it had; a file that a failed write has cut short holds no task.
C29_Step ==
  /\ \A i \in 1..Len(tasks) :
       tasks[i].status = "Closed" =>
         /\ i <= Len(tasks')
         /\ tasks'[i].status = "Closed"
         /\ tasks'[i].id = tasks[i].id
         /\ tasks'[i].name = tasks[i].name
  /\ \A id \in DOMAIN stored :
       HoldsTask(stored, id) /\ field(stored[id], "status") = "Closed" =>
         /\ id \in DOMAIN stored'
         /\ parses(stored'[id]) =>
              /\ field(stored'[id], "status") = "Closed"
              /\ field(stored'[id], "id") = field(stored[id], "id")
              /\ field(stored'[id], "name") = field(stored[id], "name")

C29_ClosedAbsorbing == [][C29_Step]_vars

\* a note was added to the checked out task, which is Closed
C29_Witness ==
  /\ cli_cmd # <<>>
  /\ cli_cmd.sub = "note"
  /\ cli_ret = "ok"
  /\ cli_applied = <<Write>>
  /\ is_ok(read_checkout(marker, "ok"))
  /\ is_some(read_checkout(marker, "ok")[2])
  /\ HoldsTask(stored, unwrap(read_checkout(marker, "ok")[2]))
  /\ field(stored[unwrap(read_checkout(marker, "ok")[2])], "status") = "Closed"
  /\ field(stored[unwrap(read_checkout(marker, "ok")[2])], "notes") # <<>>


\* the marker names the task of this id
MarkerNames(m, id) == is_some(m) /\ parse_u32(unwrap(m)) = Ok(id)

\* the marker names a task that one of the files holds
NamesStoredTask(m, st) ==
  \E id \in DOMAIN st :
    /\ MarkerNames(m, id)
    /\ parses(st[id])
    /\ field(st[id], "id") = id

\* a run of checkout with an ID that is the number of no stored task
\* returns an error and yields no CheckoutTask effect
UnknownIdRefused ==
  \A id \in 0..(MaxEntries + 1) :
    /\ cli_cmd' # <<>>
    /\ cli_cmd'.sub = "checkout"
    /\ cli_cmd'.ID = Some(to_string(id))
    /\ ~HoldsTask(stored, id)
    => /\ cli_ret' = "err"
       /\ cli_effects' = <<>>
       /\ UNCHANGED <<stored, marker>>

\* a run of checkout --add yields Write and then CheckoutTask of the new
\* task, and commits the marker only after the tasks are written
WriteBeforeCheckout ==
  /\ cli_cmd' # <<>>
  /\ cli_cmd'.sub = "checkout"
  /\ is_some(cli_cmd'.add)
  /\ cli_effects' # <<>>
  => /\ Len(cli_effects') = 2
     /\ cli_effects'[1] = Write
     /\ cli_effects'[2][1] = "CheckoutTask"
     /\ cli_applied' \in {<<>>, <<Write>>, cli_effects'}
     /\ cli_applied' = <<>> => cli_ret' = "err" /\ marker' = marker
     /\ cli_applied' # <<>> => HoldsTask(stored', cli_effects'[2][2])
     /\ cli_applied' = cli_effects' <=> cli_ret' = "ok"
     /\ cli_ret' = "ok" => MarkerNames(marker', cli_effects'[2][2])

\* C30: after any sequence of runs the checkout marker, when present, names
\* the id of a stored task: checkout of an id that is not in the list
\* returns an error and yields no CheckoutTask effect, and checkout --add
\* applies Write before CheckoutTask, a failed write stopping the effects
\* before the marker is committed.
C30_MarkerNamesStoredTask ==
  /\ [](is_some(marker) => NamesStoredTask(marker, stored))
  /\ [][UnknownIdRefused /\ WriteBeforeCheckout]_vars

\* the two mechanisms alone
C30_Mechanisms == [][UnknownIdRefused /\ WriteBeforeCheckout]_vars

\* the marker names a stored task unless a write was cut short: a marker
\* left empty by a failed commit_checkout, or a task file emptied by a
\* failed write_all
C30_UnlessCutShort ==
  is_some(marker) /\ unwrap(marker) # <<>> =>
    \E id \in DOMAIN stored :
      /\ MarkerNames(marker, id)
      /\ parses(stored[id]) => field(stored[id], "id") = id

\* checkout --add has written the new task and checked it out
C30_AddedAndCheckedOut ==
  /\ cli_cmd # <<>>
  /\ cli_cmd.sub = "checkout"
  /\ is_some(cli_cmd.add)
  /\ cli_ret = "ok"
  /\ cli_applied = <<Write, CheckoutTask(2)>>
  /\ NamesStoredTask(marker, stored)

\* checkout --add whose write failed: the marker is as it was
C30_WriteFailed ==
  /\ cli_cmd # <<>>
  /\ cli_cmd.sub = "checkout"
  /\ is_some(cli_cmd.add)
  /\ cli_ret = "err"
  /\ cli_effects = <<Write, CheckoutTask(2)>>
  /\ cli_applied = <<>>
  /\ MarkerNames(marker, 1)

\* checkout of an id that no task has
C30_UnknownId ==
  /\ cli_cmd # <<>>
  /\ cli_cmd.sub = "checkout"
  /\ cli_cmd.ID = Some(<<"2">>)
  /\ DOMAIN stored = {1}
  /\ cli_ret = "err"

\* the marker left empty by a commit_checkout whose write failed
C30_EmptyMarker ==
  /\ marker = Some(<<>>)
  /\ cli_effects # <<>>
  /\ cli_effects[Len(cli_effects)][1] = "CheckoutTask"
  /\ cli_ret = "err"

============================================================================
